---- MODULE Spec2Model ----
(***************************************************************************)
(* Model of Multi-Agents/travel_planner.py: the interactive loop of main() *)
(* around a semantic_kernel AgentGroupChat with three ChatCompletionAgents,*)
(* a KernelFunctionSelectionStrategy and a KernelFunctionTerminationStrategy.*)
(*                                                                         *)
(* Texts that the program inspects character by character (the input line, *)
(* the termination response) are sequences of one-character strings.       *)
(* Persona names and selection responses are only compared for equality    *)
(* and are plain strings.                                                  *)
(***************************************************************************)
EXTENDS Integers, Sequences, FiniteSets, TLC

VARIABLES pc, history, is_complete, user_input, selected, iteration,
          inputsRead, calls, printed, selResp, lastTermResp, termSeen, failure

vars == <<pc, history, is_complete, user_input, selected, iteration,
          inputsRead, calls, printed, selResp, lastTermResp, termSeen, failure>>

(***************************************************************************)
(* Bounds of the model.                                                    *)
(***************************************************************************)
\* number of input lines read in one run
MaxInputs == 2
\* number of leading iterations of one chat.invoke() in which the selection
\* may name any persona; in the later ones it names the Concierge
MaxFree == 4

(***************************************************************************)
(* Program constants.                                                      *)
(***************************************************************************)
CONCIERGE_NAME == "Concierge"
KYRGYZSTAN_ROUTE_EXPERT_NAME == "KyrgyzstanRouteExpert"
LOCAL_TRADITIONS_EXPERT_NAME == "LocalTraditionsExpert"

\* maximum_iterations of the termination strategy
maximum_iterations_more == 20 + 1
maximum_iterations == 20

\* agents=[...] of the AgentGroupChat
Agents == {CONCIERGE_NAME, KYRGYZSTAN_ROUTE_EXPERT_NAME, LOCAL_TRADITIONS_EXPERT_NAME}

\* agents=[...] of the termination strategy
TerminationAgents == {CONCIERGE_NAME, KYRGYZSTAN_ROUTE_EXPERT_NAME, LOCAL_TRADITIONS_EXPERT_NAME}

None == "None"

\* the selection / termination response of the current iteration, when one
\* was received
NoResponse == [made |-> FALSE, value |-> <<>>]
Response(v) == [made |-> TRUE, value |-> v]

\* a printed line
Line(kind, role, name, content, value) ==
    [kind |-> kind, role |-> role, name |-> name, content |-> content, value |-> value]

(***************************************************************************)
(* str.lower() on the characters the model uses.                           *)
(***************************************************************************)
UpperToLower == [c \in {"E", "X", "I", "T", "Y", "S", "H", "N", "O"} |->
                   CASE c = "E" -> "e" [] c = "X" -> "x" [] c = "I" -> "i"
                     [] c = "T" -> "t" [] c = "Y" -> "y" [] c = "S" -> "s"
                     [] c = "H" -> "h" [] c = "N" -> "n" [] c = "O" -> "o"]

LowerChar(c) == IF c \in DOMAIN UpperToLower THEN UpperToLower[c] ELSE c

Lower(s) == [i \in 1..Len(s) |-> LowerChar(s[i])]

(***************************************************************************)
(* user_input.lower() == 'exit'                                            *)
(***************************************************************************)
IsExitNoLower(s) == s = <<"e", "x", "i", "t">>
IsExit(s) == Lower(s) = <<"e", "x", "i", "t">>

(***************************************************************************)
(* result_parser of the termination strategy:                              *)
(*   lambda result: str(result.value[0]).lower() == "yes"                  *)
(* value is the list of completions; value[0] of an empty list raises.     *)
(***************************************************************************)
TerminationParserNoLower(value) == value[1] = <<"y", "e", "s">>
TerminationParser(value) == Lower(value[1]) = <<"y", "e", "s">>

(***************************************************************************)
(* result_parser of the selection strategy:                                *)
(*   lambda result: str(result.value[0]) if result.value else CONCIERGE_NAME*)
(***************************************************************************)
SelectionParser(value) == IF value # <<>> THEN value[1] ELSE CONCIERGE_NAME

(***************************************************************************)
(* Inputs of the model.                                                    *)
(***************************************************************************)
\* lines typed by the user
InputLines == { <<"e", "x", "i", "t">>, <<"E", "X", "I", "T">>, <<"E", "x", "i", "t">>,
                <<"h", "i">>, <<"e", "x", "i", "t", " ">> }

\* completions returned to the selection function (lists of texts)
SelectionValues == { <<>>, <<CONCIERGE_NAME>>, <<KYRGYZSTAN_ROUTE_EXPERT_NAME>>,
                     <<LOCAL_TRADITIONS_EXPERT_NAME>>, <<"">>, <<"Bob">>, <<"concierge">> }

\* completions returned to the termination function
TerminationValues == { <<>>, << <<"y", "e", "s">> >>, << <<"Y", "E", "S">> >>,
                       << <<"Y", "e", "s">> >>, << <<" ", "y", "e", "s">> >>,
                       << <<"y", "e", "s", "\n">> >>, << <<"n", "o">> >>,
                       << <<"y", "e", "s", ".">> >>, << <<>> >> }

\* texts returned by a persona's completion call
Replies == { <<"o", "k">> }

Message(role, name, content) == [role |-> role, name |-> name, content |-> content]

AgentTurns(h) == Cardinality({i \in 1..Len(h) : h[i].role = "assistant"})


(***************************************************************************)
(* Init: the process has started; nothing has been read or printed.        *)
(***************************************************************************)
Init ==
    /\ pc = "create"
    /\ history = <<>>
    /\ is_complete = FALSE
    /\ user_input = <<>>
    /\ selected = None
    /\ iteration = 0
    /\ inputsRead = 0
    /\ calls = 0
    /\ printed = <<>>
    /\ selResp = NoResponse
    /\ lastTermResp = NoResponse
    /\ termSeen = <<>>
    /\ failure = "none"

(***************************************************************************)
(* Top of `while True:`: the agents, the two prompt functions and a new    *)
(* AgentGroupChat are built.  A new chat has an empty history and          *)
(* is_complete = False.  No completion request is sent.                    *)
(***************************************************************************)
CreateChat ==
    /\ pc = "create"
    /\ pc' = "input"
    /\ history' = <<>>
    /\ is_complete' = FALSE
    /\ selected' = None
    /\ iteration' = 0
    /\ selResp' = NoResponse
    /\ lastTermResp' = NoResponse
    /\ termSeen' = <<>>
    /\ UNCHANGED <<user_input, inputsRead, calls, printed, failure>>

(***************************************************************************)
(* user_input = input(prompt); if user_input.lower() == 'exit': break      *)
(* printed and calls are observed from the prompt on.                      *)
(***************************************************************************)
ReadInput ==
    /\ pc = "input"
    /\ inputsRead < MaxInputs
    /\ \E line \in InputLines :
         /\ user_input' = line
         /\ pc' = IF IsExit(line) THEN "done" ELSE "add"
    /\ inputsRead' = inputsRead + 1
    /\ printed' = <<>>
    /\ calls' = 0
    /\ UNCHANGED <<history, is_complete, selected, iteration, selResp, lastTermResp, termSeen, failure>>

(***************************************************************************)
(* await chat.add_chat_message(ChatMessageContent(role=USER, ...))         *)
(* print(f"# {AuthorRole.USER}: '{user_input}'")                           *)
(***************************************************************************)
AddChatMessageSkip ==
    /\ pc = "add"
    /\ pc' = "select"
    /\ printed' = Append(printed, Line("user", "user", None, user_input, FALSE))
    /\ UNCHANGED <<history, is_complete, user_input, selected, iteration, inputsRead,
                   calls, selResp, lastTermResp, termSeen, failure>>

AddChatMessage ==
    /\ pc = "add"
    /\ pc' = "select"
    /\ history' = Append(history, Message("user", None, user_input))
    /\ printed' = Append(printed, Line("user", "user", None, user_input, FALSE))
    /\ UNCHANGED <<is_complete, user_input, selected, iteration, inputsRead,
                   calls, selResp, lastTermResp, termSeen, failure>>


(***************************************************************************)
(* There is no try/except in main(): an exception raised by a remote call, *)
(* by a result parser or by the strategies leaves main() and ends the      *)
(* process.                                                                *)
(***************************************************************************)
RaiseAndContinue(kind) ==
    /\ pc' = "create"
    /\ failure' = kind
    /\ calls' = calls + 1
    /\ UNCHANGED <<history, is_complete, user_input, selected, iteration, inputsRead,
                   printed, lastTermResp, termSeen>>

Raise(kind) ==
    /\ pc' = "crashed"
    /\ failure' = kind
    /\ calls' = calls + 1
    /\ UNCHANGED <<history, is_complete, user_input, selected, iteration, inputsRead,
                   printed, lastTermResp, termSeen>>

(***************************************************************************)
(* chat.invoke(), step 1: selection_strategy.next(agents, history).        *)
(* The selection function is invoked once, its result goes through the     *)
(* result_parser, and the agent of that name is looked up in agents; no     *)
(* agent of that name raises.                                              *)
(***************************************************************************)
Select ==
    /\ pc = "select"
    /\ \E v \in SelectionValues :
         LET name == SelectionParser(v) IN
           /\ name \in Agents
           /\ (name = CONCIERGE_NAME \/ iteration < MaxFree)
           /\ selected' = name
           /\ selResp' = Response(v)
    /\ pc' = "agent"
    /\ calls' = calls + 1
    /\ UNCHANGED <<history, is_complete, user_input, iteration, inputsRead,
                   printed, lastTermResp, termSeen, failure>>

SelectUnknown ==
    /\ pc = "select"
    /\ \E v \in SelectionValues :
         /\ SelectionParser(v) \notin Agents
         /\ selResp' = Response(v)
    /\ Raise("selection")

SelectFails ==
    /\ pc = "select"
    /\ UNCHANGED selResp
    /\ Raise("remote")

(***************************************************************************)
(* chat.invoke(), step 2: the selected agent's completion call; the reply  *)
(* carries the agent's name and is appended to the chat history.           *)
(***************************************************************************)
InvokeAgent ==
    /\ pc = "agent"
    /\ \E r \in Replies :
         history' = Append(history, Message("assistant", selected, r))
    /\ pc' = "terminate"
    /\ calls' = calls + 1
    /\ UNCHANGED <<is_complete, user_input, selected, iteration, inputsRead,
                   printed, selResp, lastTermResp, termSeen, failure>>

InvokeAgentFails ==
    /\ pc = "agent"
    /\ UNCHANGED selResp
    /\ Raise("remote")

(***************************************************************************)
(* chat.invoke(), step 3: termination_strategy.should_terminate(agent,     *)
(* history) before the message is yielded.  An agent outside the strategy's*)
(* agents is not evaluated; otherwise the termination function is invoked  *)
(* once on the history and is_complete is the result_parser's verdict.     *)
(***************************************************************************)
Terminate ==
    /\ pc = "terminate"
    /\ IF selected \in TerminationAgents
       THEN \E v \in TerminationValues :
              /\ v # <<>>
              /\ is_complete' = TerminationParser(v)
              /\ lastTermResp' = Response(v)
              /\ termSeen' = history
              /\ calls' = calls + 1
       ELSE /\ is_complete' = FALSE
            /\ UNCHANGED <<lastTermResp, termSeen, calls>>
    /\ pc' = "print"
    /\ UNCHANGED <<history, user_input, selected, iteration, inputsRead, printed,
                   selResp, failure>>

TerminateNoValue ==
    /\ pc = "terminate"
    /\ selected \in TerminationAgents
    /\ <<>> \in TerminationValues
    /\ UNCHANGED selResp
    /\ Raise("parse")

TerminateFails ==
    /\ pc = "terminate"
    /\ selected \in TerminationAgents
    /\ UNCHANGED selResp
    /\ Raise("remote")

(***************************************************************************)
(* The message is yielded to main(), which prints it:                      *)
(*   print(f"# {content.role} - {content.name or '*'}: '{content.content}'")*)
(* Back in chat.invoke(): break if is_complete, else the next of the       *)
(* range(maximum_iterations) iterations, if any.                           *)
(***************************************************************************)
ShouldBreakNever == FALSE
ShouldBreak == is_complete

IterationsLeft == iteration + 1 < maximum_iterations

PrintTurn ==
    /\ pc = "print"
    /\ LET m == history[Len(history)] IN
         printed' = Append(printed, Line("turn", m.role, IF m.name = None THEN "*" ELSE m.name,
                                         m.content, FALSE))
    /\ IF ~ShouldBreak /\ IterationsLeft
       THEN /\ pc' = "select"
            /\ iteration' = iteration + 1
            /\ selected' = None
            /\ selResp' = NoResponse
            /\ lastTermResp' = NoResponse
            /\ termSeen' = <<>>
       ELSE /\ pc' = "status"
            /\ UNCHANGED <<iteration, selected, selResp, lastTermResp, termSeen>>
    /\ UNCHANGED <<history, is_complete, user_input, inputsRead, calls, failure>>

(***************************************************************************)
(* print(f"# IS COMPLETE: {chat.is_complete}"), then the next pass of      *)
(* `while True:`.                                                          *)
(***************************************************************************)
PrintStatusTrue ==
    /\ pc = "status"
    /\ printed' = Append(printed, Line("status", None, None, <<>>, TRUE))
    /\ pc' = "create"
    /\ UNCHANGED <<history, is_complete, user_input, selected, iteration, inputsRead,
                   calls, selResp, lastTermResp, termSeen, failure>>

PrintStatus ==
    /\ pc = "status"
    /\ printed' = Append(printed, Line("status", None, None, <<>>, is_complete))
    /\ pc' = "create"
    /\ UNCHANGED <<history, is_complete, user_input, selected, iteration, inputsRead,
                   calls, selResp, lastTermResp, termSeen, failure>>

(***************************************************************************)
(* Specifications.                                                         *)
(***************************************************************************)
Next ==
    \/ CreateChat
    \/ ReadInput
    \/ AddChatMessage
    \/ Select
    \/ SelectUnknown
    \/ SelectFails
    \/ InvokeAgent
    \/ InvokeAgentFails
    \/ Terminate
    \/ TerminateNoValue
    \/ TerminateFails
    \/ PrintTurn
    \/ PrintStatus

Spec == Init /\ [][Next]_vars

\* every remote call returns a response
NextReturns ==
    \/ CreateChat
    \/ ReadInput
    \/ AddChatMessage
    \/ Select
    \/ SelectUnknown
    \/ InvokeAgent
    \/ Terminate
    \/ TerminateNoValue
    \/ PrintTurn
    \/ PrintStatus

ReturnSpec == Init /\ [][NextReturns]_vars /\ WF_vars(NextReturns)

TypeOK ==
    /\ pc \in {"create", "input", "add", "select", "agent", "terminate", "print",
               "status", "done", "crashed"}
    /\ is_complete \in BOOLEAN
    /\ iteration \in 0..(maximum_iterations - 1)
    /\ inputsRead \in 0..MaxInputs
    /\ selected \in Agents \cup {None}
    /\ failure \in {"none", "remote", "selection", "parse"}


(***************************************************************************)
(* Vocabulary of the properties.                                           *)
(***************************************************************************)
\* the phases of one chat.invoke()
InChat == {"select", "agent", "terminate", "print", "status"}

\* "yes" and "exit" in every letter case, written out
YesAnyCase == { <<a, b, c>> : a \in {"y", "Y"}, b \in {"e", "E"}, c \in {"s", "S"} }
ExitAnyCase == { <<a, b, c, d>> : a \in {"e", "E"}, b \in {"x", "X"},
                                  c \in {"i", "I"}, d \in {"t", "T"} }

\* str.strip()
Whitespace == {" ", "\n", "\t"}
RECURSIVE StripLeft(_)
StripLeft(s) == IF s # <<>> /\ s[1] \in Whitespace THEN StripLeft(Tail(s)) ELSE s
RECURSIVE StripRight(_)
StripRight(s) == IF s # <<>> /\ s[Len(s)] \in Whitespace
                 THEN StripRight(SubSeq(s, 1, Len(s) - 1)) ELSE s
Strip(s) == StripRight(StripLeft(s))

IsPrefix(a, b) == Len(a) <= Len(b) /\ SubSeq(b, 1, Len(a)) = a

TurnLines == SelectSeq(printed, LAMBDA line : line.kind = "turn")
StatusLines == SelectSeq(printed, LAMBDA line : line.kind = "status")

\* a selection response that names none of the three personas
Unusable(value) == value = <<>> \/ value[1] \notin
                     {"Concierge", "KyrgyzstanRouteExpert", "LocalTraditionsExpert"}

(***************************************************************************)
(* C1: one chat.invoke() produces at most 20 persona turns (and persona    *)
(* calls), whatever the selection, persona and termination responses are;  *)
(* after the 20th turn the loop is over even without a stop verdict.       *)
(***************************************************************************)
C1_AtMostTwentyTurns ==
    /\ AgentTurns(history) <= 20
    /\ Len(TurnLines) <= 20
    /\ (pc \in {"select", "agent"} => AgentTurns(history) < 20)

C1_Witness == pc = "status" /\ ~is_complete /\ AgentTurns(history) = 20

(***************************************************************************)
(* C2 as stated: the verdict is stop iff the termination response,         *)
(* trimmed and lower-cased, equals "yes".                                  *)
(***************************************************************************)
C2_Original ==
    lastTermResp.made =>
        (is_complete <=> Lower(Strip(lastTermResp.value[1])) = <<"y", "e", "s">>)

(***************************************************************************)
(* C2 amended: the verdict is stop iff the termination response, as        *)
(* received (not trimmed), is "yes" in some letter case; every other       *)
(* response text is a continue.                                            *)
(***************************************************************************)
C2_StopIffYesUntrimmed ==
    lastTermResp.made => (is_complete <=> lastTermResp.value[1] \in YesAnyCase)

C2_Witness ==
    /\ pc = "print"
    /\ lastTermResp.made
    /\ lastTermResp.value[1] = <<"Y", "E", "S">>
    /\ is_complete

(***************************************************************************)
(* C3 as stated: when the selection response is empty or names none of the *)
(* personas, the Concierge is selected for the iteration and the selection *)
(* does not fail.                                                          *)
(***************************************************************************)
C3_Original ==
    (selResp.made /\ Unusable(selResp.value)) =>
        (selected = CONCIERGE_NAME /\ failure # "selection")

(***************************************************************************)
(* C4: when the first input line is "exit" in any letter case, the program *)
(* stops with no remote call issued and nothing printed.                   *)
(***************************************************************************)
C4_ExitStopsSilently ==
    (inputsRead = 1 /\ user_input \in ExitAnyCase) =>
        (pc = "done" /\ calls = 0 /\ printed = <<>> /\ history = <<>>)

C4_Witness == pc = "done" /\ inputsRead = 1 /\ user_input = <<"E", "X", "I", "T">>

(***************************************************************************)
(* C5 as stated: from program start to the exit command the history only   *)
(* grows; every step keeps the earlier turns, in order.                    *)
(***************************************************************************)
C5_Original == [][IsPrefix(history, history')]_vars

(***************************************************************************)
(* C6 as stated: when every remote call returns, the handling of a         *)
(* non-exit input ends after at least one printed agent turn and the       *)
(* program waits for the next input line.                                  *)
(***************************************************************************)
C6_Original == (pc = "add") ~> (pc = "input" /\ Len(TurnLines) >= 1)

(***************************************************************************)
(* C7: once a remote call has failed the process is over: no later remote  *)
(* call, no later input, no retry.                                         *)
(***************************************************************************)
C7_FailureEndsProcess ==
    [][failure # "none" =>
         (pc = "crashed" /\ pc' = "crashed" /\ calls' = calls /\ inputsRead' = inputsRead)]_vars

C7_Witness == pc = "crashed" /\ failure = "remote" /\ AgentTurns(history) >= 1

(***************************************************************************)
(* C8: the user turn is in the history before the first selection call;    *)
(* every iteration appends at most one turn, tagged with the persona the   *)
(* iteration selected; the printed turns are the appended turns.           *)
(***************************************************************************)
C8_OneTaggedTurnPerIteration ==
    pc \in InChat =>
        /\ Len(history) >= 1
        /\ history[1] = [role |-> "user", name |-> None, content |-> user_input]
        /\ AgentTurns(history) = Len(history) - 1
        /\ Len(history) = 1 + iteration + (IF pc \in {"select", "agent"} THEN 0 ELSE 1)
        /\ (pc \in {"terminate", "print", "status"} =>
              /\ selected \in Agents
              /\ history[Len(history)].name = selected)
        /\ Len(TurnLines) = iteration + (IF pc = "status" THEN 1 ELSE 0)
        /\ \A i \in 1..Len(TurnLines) :
              /\ TurnLines[i].name = history[i + 1].name
              /\ TurnLines[i].content = history[i + 1].content
              /\ TurnLines[i].role = "assistant"

C8_Witness ==
    /\ pc = "status"
    /\ Len(history) = 3
    /\ history[2].name = KYRGYZSTAN_ROUTE_EXPERT_NAME
    /\ history[3].name = LOCAL_TRADITIONS_EXPERT_NAME

(***************************************************************************)
(* C9: the termination call of an iteration sees the history with that     *)
(* iteration's persona turn, and after a stop verdict no further remote    *)
(* call is issued for the input.                                           *)
(***************************************************************************)
C9_StopsAtFirstStop ==
    /\ [](lastTermResp.made =>
            /\ termSeen = history
            /\ Len(termSeen) = iteration + 2
            /\ termSeen[Len(termSeen)].name = selected)
    /\ [][(is_complete /\ pc \in InChat) =>
            (calls' = calls /\ history' = history /\ pc' \in {"status", "create"})]_vars

C9_Witness ==
    /\ pc = "status"
    /\ is_complete
    /\ iteration = 2
    /\ calls = 9

(***************************************************************************)
(* C10: no status line is printed while the input is handled; when the     *)
(* handling is over exactly one status line has been printed, it is the    *)
(* last line, and it says True iff the last termination response was a     *)
(* stop; it says False only after 20 turns.                                *)
(***************************************************************************)
C10_OneStatusLine ==
    /\ (pc \in InChat \cup {"add"} => Len(StatusLines) = 0)
    /\ ((pc = "create" /\ inputsRead > 0) =>
          /\ Len(StatusLines) = 1
          /\ printed[Len(printed)].kind = "status"
          /\ Len(printed) = Len(TurnLines) + 2
          /\ (printed[Len(printed)].value <=>
                (lastTermResp.made /\ lastTermResp.value[1] \in YesAnyCase))
          /\ (~printed[Len(printed)].value => Len(TurnLines) = 20))

C10_Witness ==
    /\ pc = "create"
    /\ inputsRead > 0
    /\ Len(TurnLines) = 20
    /\ printed[Len(printed)].value = FALSE

====
